---- MODULE Spec2Model ----
(***************************************************************************)
(* The masking-policy reconciler of scripts/deploy_masking_policies.py:    *)
(* main() connects, then runs unset -> drop -> create -> apply -> verify   *)
(* over hard-coded lists, against a warehouse reached through one cursor.  *)
(* The warehouse is modelled by the effect each SQL statement the script   *)
(* issues has on tables, masking policies, column bindings and the         *)
(* session's current schema.  Any cursor.execute may raise.                *)
(***************************************************************************)
EXTENDS Integers, Sequences, FiniteSets, TLC

\* ------------------------------------------------------------------ bounds
\* channel errors injected over one behaviour (all runs together)
MaxFaults == 1
\* successive runs of main() against the same warehouse
NumRuns == 2
\* error messages are up to MaxErrExtra characters longer than the excerpt
MaxErrExtra == 3
\* scripts handed to execute_sql_file have up to MaxScriptLen tokens
MaxScriptLen == 5

\* ------------------------------------------------------- program constants
\* str(e)[:100]
ExcerptLen == 100

NoPolicy == <<"-", "-">>
NoSchema == "-"
Schemas == {"CURATED", "DATA_MART"}
PolicyNames == {"address_mask", "coordinate_mask", "population_mask"}
PolicyKeys == Schemas \X PolicyNames

App(s, t, c, p) == [schema |-> s, table |-> t, column |-> c, policy |-> p]
Pol(s, p) == [schema |-> s, policy |-> p]

get_known_policy_applications ==
  << App("CURATED", "curated_environmental_data", "facility_address", "address_mask"),
     App("CURATED", "curated_health_indicators", "latitude", "coordinate_mask"),
     App("CURATED", "curated_health_indicators", "longitude", "coordinate_mask"),
     App("DATA_MART", "public_health_dashboard", "total_population", "population_mask") >>

\* the drop list without its last entry
policies_to_drop_short ==
  << Pol("CURATED", "address_mask"),
     Pol("CURATED", "coordinate_mask") >>

policies_to_drop ==
  << Pol("CURATED", "address_mask"),
     Pol("CURATED", "coordinate_mask"),
     Pol("DATA_MART", "population_mask") >>

\* create_masking_policies without its second bare USE SCHEMA: the
\* population_mask block relies on its probe to select DATA_MART
create_steps_one_use ==
  << [use |-> TRUE, schema |-> "CURATED", policy |-> "address_mask"],
     [use |-> FALSE, schema |-> "CURATED", policy |-> "coordinate_mask"],
     [use |-> FALSE, schema |-> "DATA_MART", policy |-> "population_mask"] >>

\* create_masking_policies is straight-line code: per policy, whether a bare
\* USE SCHEMA precedes its probe (lines 105, 135), the schema and the name.
create_steps ==
  << [use |-> TRUE, schema |-> "CURATED", policy |-> "address_mask"],
     [use |-> FALSE, schema |-> "CURATED", policy |-> "coordinate_mask"],
     [use |-> TRUE, schema |-> "DATA_MART", policy |-> "population_mask"] >>

\* the apply list without its last entry
policy_applications_short ==
  << App("CURATED", "curated_environmental_data", "facility_address", "address_mask"),
     App("CURATED", "curated_health_indicators", "latitude", "coordinate_mask"),
     App("CURATED", "curated_health_indicators", "longitude", "coordinate_mask") >>

policy_applications ==
  << App("CURATED", "curated_environmental_data", "facility_address", "address_mask"),
     App("CURATED", "curated_health_indicators", "latitude", "coordinate_mask"),
     App("CURATED", "curated_health_indicators", "longitude", "coordinate_mask"),
     App("DATA_MART", "public_health_dashboard", "total_population", "population_mask") >>

\* the expected list without its DATA_MART entry
expected_policies_short ==
  << Pol("CURATED", "address_mask"),
     Pol("CURATED", "coordinate_mask") >>

\* the policies verify_deployment expects to find
expected_policies ==
  << Pol("CURATED", "address_mask"),
     Pol("CURATED", "coordinate_mask"),
     Pol("DATA_MART", "population_mask") >>

\* the body a CREATE MASKING POLICY statement of this script gives a policy
DesiredBody == "new"
Bodies == {"absent", "old", "new"}

Tbl(a) == <<a.schema, a.table>>
Col(a) == <<a.schema, a.table, a.column>>
Key(a) == <<a.schema, a.policy>>

Range(f) == {f[i] : i \in DOMAIN f}
KnownTables == {Tbl(a) : a \in Range(get_known_policy_applications)}
Columns == {Col(a) : a \in Range(get_known_policy_applications)}
ManagedKeys == {Key(p) : p \in Range(policies_to_drop)}

Phases == {"unset", "drop", "create", "apply"}
Outcomes == {"none", "skipped", "ok", "failed", "raised"}

VARIABLES
  tables,      \* warehouse: the <<schema, table>> that exist
  policies,    \* warehouse: PolicyKeys -> body ("absent": no such policy)
  bound,       \* warehouse: Columns -> the policy key bound to it, or NoPolicy
  curSchema,   \* session: schema set by the last successful USE SCHEMA
  conn,        \* "none", "open" or "failed": connect_to_snowflake of this run
  pc,          \* where main() is
  idx,         \* next element of the current phase's list
  run,         \* number of the current run of main()
  report,      \* per phase, the outcome recorded for each element
  verified,    \* what verify_deployment counted
  nfaults,     \* channel errors injected so far
  faulted,     \* phases of this run in which a channel error was injected
  startW,      \* warehouse state in which this run started
  prevRun,     \* how the run before this one ended, and whether error-free
  exec,        \* last call of execute_with_error_handling and its result
  probe,       \* last call of an existence probe on its own and its result
  split,       \* last call of execute_sql_file on its own and its result
  closes,      \* how often main() closed its cursor and its connection
  race         \* two concurrent runs: per run its phase, element and probe result

vars == << tables, policies, bound, curSchema, conn, pc, idx, run, report,
           verified, nfaults, faulted, startW, prevRun, exec, probe, split,
           closes, race >>

W == [policies |-> policies, bound |-> bound]

EmptyReport ==
  [ unset |-> [i \in 1..Len(get_known_policy_applications) |-> "none"],
    drop |-> [i \in 1..Len(policies_to_drop) |-> "none"],
    create |-> [i \in 1..Len(create_steps) |-> "none"],
    apply |-> [i \in 1..Len(policy_applications) |-> "none"] ]

NoVerification == [ran |-> FALSE, failed |-> FALSE, policies |-> 0, applications |-> 0]
IdleExec == [called |-> FALSE]
IdleProbe == [called |-> FALSE]
IdleSplit == [called |-> FALSE]
NoCloses == [cursor |-> 0, conn |-> 0]
IdleRace == [called |-> FALSE]

\* ------------------------------------------------------------ fault choice
RECURSIVE SubsetsUpTo(_, _)
SubsetsUpTo(S, n) ==
  IF n = 0 THEN {{}}
  ELSE LET P == SubsetsUpTo(S, n - 1) IN P \cup {T \cup {x} : T \in P, x \in S}

\* the calls of one step (numbered 1..k) that raise a channel error
FaultSets(k) == SubsetsUpTo(1..k, MaxFaults - nfaults)


\* --------------------------------------------------------------- channel
Min(a, b) == IF a < b THEN a ELSE b
Msg(n) == [k \in 1..n |-> k % 10]
ChannelError == Msg(ExcerptLen + 1)

\* cursor.execute(command): raises when the channel fails or the warehouse
\* rejects the statement
cursor_execute(fault, accepted) == fault \/ ~accepted

\* the executor with the exception escaping it
execute_reraising(raised, msg) ==
  [ raised |-> raised,
    ok |-> ~raised,
    excerpt |-> IF raised THEN SubSeq(msg, 1, Min(Len(msg), ExcerptLen)) ELSE << >> ]

\* try: cursor.execute(command); return True
\* except Exception as e: print(... str(e)[:100]); return False
execute_with_error_handling(raised, msg) ==
  [ raised |-> FALSE,
    ok |-> ~raised,
    excerpt |-> IF raised THEN SubSeq(msg, 1, Min(Len(msg), ExcerptLen)) ELSE << >> ]

OutcomeOf(r) == IF r.raised THEN "raised" ELSE IF r.ok THEN "ok" ELSE "failed"

\* ------------------------------------------------- statements' effects
\* ALTER TABLE t MODIFY COLUMN c UNSET MASKING POLICY, in schema cur
UnsetStatement(cur, table, column) ==
  LET c == <<cur, table, column>> IN
  [ accepted |-> <<cur, table>> \in tables /\ c \in Columns,
    policies |-> policies,
    bound |-> IF c \in Columns THEN [bound EXCEPT ![c] = NoPolicy] ELSE bound ]

\* DROP MASKING POLICY p accepted although a column is bound to p
DropStatementOfBound(cur, policy) ==
  LET k == <<cur, policy>> IN
  [ accepted |-> k \in PolicyKeys /\ policies[k] # "absent",
    policies |-> IF k \in PolicyKeys THEN [policies EXCEPT ![k] = "absent"] ELSE policies,
    bound |-> bound ]

\* DROP MASKING POLICY p, in schema cur: refused while p is bound to a column
DropStatement(cur, policy) ==
  LET k == <<cur, policy>> IN
  [ accepted |-> /\ k \in PolicyKeys
                 /\ policies[k] # "absent"
                 /\ \A c \in Columns : bound[c] # k,
    policies |-> IF k \in PolicyKeys THEN [policies EXCEPT ![k] = "absent"] ELSE policies,
    bound |-> bound ]

\* CREATE MASKING POLICY p AS ..., in schema cur: refused when p exists
CreateStatement(cur, policy) ==
  LET k == <<cur, policy>> IN
  [ accepted |-> k \in PolicyKeys /\ policies[k] = "absent",
    policies |-> IF k \in PolicyKeys THEN [policies EXCEPT ![k] = DesiredBody] ELSE policies,
    bound |-> bound ]

\* ALTER TABLE t MODIFY COLUMN c SET MASKING POLICY p, in schema cur: refused
\* when the table or the policy is missing or the column already has a policy
SetStatement(cur, table, column, policy) ==
  LET c == <<cur, table, column>>
      k == <<cur, policy>> IN
  [ accepted |-> /\ <<cur, table>> \in tables
                 /\ c \in Columns
                 /\ k \in PolicyKeys
                 /\ policies[k] # "absent"
                 /\ bound[c] = NoPolicy,
    policies |-> policies,
    bound |-> IF c \in Columns THEN [bound EXCEPT ![c] = k] ELSE bound ]

\* ----------------------------------------------------------------- probes
\* USE SCHEMA s; SHOW TABLES LIKE 't'; fetchone() is not None -- False on
\* any exception.  fUse, fShow: the first, the second call raises.
check_table_exists(cur, schema, table, fUse, fShow) ==
  IF fUse THEN [raised |-> FALSE, result |-> FALSE, cur |-> cur, calls |-> {1}]
  ELSE IF fShow THEN [raised |-> FALSE, result |-> FALSE, cur |-> schema, calls |-> {1, 2}]
  ELSE [raised |-> FALSE, result |-> <<schema, table>> \in tables, cur |-> schema,
        calls |-> {1, 2}]

\* USE SCHEMA s; SHOW MASKING POLICIES LIKE 'p'; fetchone() is not None
\* the probe with its try/except around the SHOW alone: a failing USE SCHEMA
\* escapes
check_policy_exists_use_outside(cur, schema, policy_name, fUse, fShow) ==
  IF fUse THEN [raised |-> TRUE, result |-> FALSE, cur |-> cur, calls |-> {1}]
  ELSE IF fShow THEN [raised |-> FALSE, result |-> FALSE, cur |-> schema, calls |-> {1, 2}]
  ELSE [raised |-> FALSE, result |-> policies[<<schema, policy_name>>] # "absent",
        cur |-> schema, calls |-> {1, 2}]

check_policy_exists(cur, schema, policy_name, fUse, fShow) ==
  IF fUse THEN [raised |-> FALSE, result |-> FALSE, cur |-> cur, calls |-> {1}]
  ELSE IF fShow THEN [raised |-> FALSE, result |-> FALSE, cur |-> schema, calls |-> {1, 2}]
  ELSE [raised |-> FALSE, result |-> policies[<<schema, policy_name>>] # "absent",
        cur |-> schema, calls |-> {1, 2}]

\* ------------------------------------------------- one element of a phase
\* Calls of a step: 1, 2 the probe's USE SCHEMA and SHOW; 3 the bare
\* cursor.execute("USE SCHEMA ..."); 4 the statement given to
\* execute_with_error_handling.  F: the calls that raise a channel error.
Guarded(F, cur, st, calls) ==
  LET r == execute_with_error_handling(cursor_execute(4 \in F, st.accepted), ChannelError)
      done == 4 \notin F /\ st.accepted IN
  [ out |-> OutcomeOf(r), cur |-> cur, calls |-> calls \cup {4},
    policies |-> IF done THEN st.policies ELSE policies,
    bound |-> IF done THEN st.bound ELSE bound ]

Unchanged(out, cur, calls) ==
  [out |-> out, cur |-> cur, calls |-> calls, policies |-> policies, bound |-> bound]

\* the unset loop with its test inverted: if not check_table_exists(...)
UnsetIterInverted(F, a, cur) ==
  LET pr == check_table_exists(cur, a.schema, a.table, 1 \in F, 2 \in F) IN
  IF pr.raised THEN Unchanged("raised", pr.cur, pr.calls)
  ELSE IF pr.result THEN Unchanged("skipped", pr.cur, pr.calls)
  ELSE IF 3 \in F THEN Unchanged("raised", pr.cur, pr.calls \cup {3})
  ELSE Guarded(F, a.schema, UnsetStatement(a.schema, a.table, a.column),
               pr.calls \cup {3})

\* body of the loop of unset_all_masking_policies
UnsetIter(F, a, cur) ==
  LET pr == check_table_exists(cur, a.schema, a.table, 1 \in F, 2 \in F) IN
  IF pr.raised THEN Unchanged("raised", pr.cur, pr.calls)
  ELSE IF ~pr.result THEN Unchanged("skipped", pr.cur, pr.calls)
  ELSE IF 3 \in F THEN Unchanged("raised", pr.cur, pr.calls \cup {3})
  ELSE Guarded(F, a.schema, UnsetStatement(a.schema, a.table, a.column),
               pr.calls \cup {3})

\* body of the loop of drop_existing_policies
DropIter(F, p, cur) ==
  LET pr == check_policy_exists(cur, p.schema, p.policy, 1 \in F, 2 \in F) IN
  IF pr.raised THEN Unchanged("raised", pr.cur, pr.calls)
  ELSE IF ~pr.result THEN Unchanged("skipped", pr.cur, pr.calls)
  ELSE IF 3 \in F THEN Unchanged("raised", pr.cur, pr.calls \cup {3})
  ELSE Guarded(F, p.schema, DropStatement(p.schema, p.policy), pr.calls \cup {3})

\* a create block with its test inverted: if check_policy_exists(...)
CreateBlockInverted(F, s, cur) ==
  IF s.use /\ 3 \in F THEN Unchanged("raised", cur, {3})
  ELSE LET cur1 == IF s.use THEN s.schema ELSE cur
           used == IF s.use THEN {3} ELSE {}
           pr == check_policy_exists(cur1, s.schema, s.policy, 1 \in F, 2 \in F) IN
       IF pr.raised THEN Unchanged("raised", pr.cur, pr.calls \cup used)
       ELSE IF ~pr.result THEN Unchanged("skipped", pr.cur, pr.calls \cup used)
       ELSE Guarded(F, pr.cur, CreateStatement(pr.cur, s.policy), pr.calls \cup used)

\* one of the three blocks of create_masking_policies
CreateBlock(F, s, cur) ==
  IF s.use /\ 3 \in F THEN Unchanged("raised", cur, {3})
  ELSE LET cur1 == IF s.use THEN s.schema ELSE cur
           used == IF s.use THEN {3} ELSE {}
           pr == check_policy_exists(cur1, s.schema, s.policy, 1 \in F, 2 \in F) IN
       IF pr.raised THEN Unchanged("raised", pr.cur, pr.calls \cup used)
       ELSE IF pr.result THEN Unchanged("skipped", pr.cur, pr.calls \cup used)
       ELSE Guarded(F, pr.cur, CreateStatement(pr.cur, s.policy), pr.calls \cup used)

\* body of the loop of apply_masking_policies
ApplyIter(F, a, cur) ==
  IF 3 \in F THEN Unchanged("raised", cur, {3})
  ELSE Guarded(F, a.schema, SetStatement(a.schema, a.table, a.column, a.policy), {3})

\* ------------------------------------------------------------------- main
\* main() with apply_masking_policies called right after the unset
NextPhaseApplyFirst(ph) ==
  CASE ph = "unset" -> "apply"
    [] ph = "apply" -> "drop"
    [] ph = "drop" -> "create"
    [] ph = "create" -> "verify"
    [] OTHER -> "done"

\* main() with create_masking_policies and apply_masking_policies swapped
NextPhaseCreateLast(ph) ==
  CASE ph = "unset" -> "drop"
    [] ph = "drop" -> "apply"
    [] ph = "apply" -> "create"
    [] ph = "create" -> "verify"
    [] OTHER -> "done"

\* main() with drop_existing_policies called last, after the apply
NextPhaseDropLast(ph) ==
  CASE ph = "unset" -> "create"
    [] ph = "create" -> "apply"
    [] ph = "apply" -> "drop"
    [] ph = "drop" -> "verify"
    [] OTHER -> "done"

\* the calls of main() after the connection, in order
NextPhase(ph) ==
  CASE ph = "unset" -> "drop"
    [] ph = "drop" -> "create"
    [] ph = "create" -> "apply"
    [] ph = "apply" -> "verify"
    [] OTHER -> "done"

\* a loop that stops one element early
LoopDoneEarly(i, n) == i >= n - 1

\* for ... in list: the loop ends after the last element
LoopDone(i, n) == i >= n

\* main() with the two close() calls after the try statement instead of in
\* its finally clause: sys.exit(1) leaves before them
main_close_after_try(ended, opened, c) ==
  IF opened /\ ended = "done"
  THEN [cursor |-> c.cursor + 1, conn |-> c.conn + 1]
  ELSE c

\* finally: if 'cursor' in locals(): cursor.close()
\*          if 'conn' in locals(): conn.close()
\* run when main() ends as ended, also on the way out through sys.exit(1);
\* opened: connect_to_snowflake() and conn.cursor() had returned
main_finally(ended, opened, c) ==
  IF opened
  THEN [cursor |-> c.cursor + 1, conn |-> c.conn + 1]
  ELSE c

\* effect of one element's step r of phase ph on the run
Step(ph, n, F, r) ==
  /\ F \subseteq r.calls
  /\ policies' = r.policies
  /\ bound' = r.bound
  /\ curSchema' = r.cur
  /\ report' = [report EXCEPT ![ph][idx] = r.out]
  /\ nfaults' = nfaults + Cardinality(F)
  /\ faulted' = IF F = {} THEN faulted ELSE faulted \cup {ph}
  /\ IF r.out = "raised" THEN pc' = "aborted" /\ idx' = idx
     ELSE IF LoopDone(idx, n) THEN pc' = NextPhase(ph) /\ idx' = 1
     ELSE pc' = ph /\ idx' = idx + 1
  /\ closes' = IF r.out = "raised" THEN main_finally("aborted", TRUE, closes) ELSE closes
  /\ UNCHANGED << tables, conn, run, verified, startW, prevRun, exec, probe, split, race >>

\* conn = connect_to_snowflake(); cursor = conn.cursor()
connect_to_snowflake ==
  /\ pc = "start"
  /\ \E F \in FaultSets(1) :
       /\ nfaults' = nfaults + Cardinality(F)
       /\ IF F = {} THEN conn' = "open" /\ pc' = "unset" /\ faulted' = faulted
          ELSE conn' = "failed" /\ pc' = "aborted" /\ faulted' = faulted \cup {"connect"}
       /\ closes' = IF F = {} THEN closes ELSE main_finally("aborted", FALSE, closes)
  /\ idx' = 1
  /\ curSchema' = NoSchema
  /\ UNCHANGED << tables, policies, bound, run, report, verified, startW, prevRun, exec, probe, split, race >>

unset_all_masking_policies ==
  /\ pc = "unset"
  /\ \E F \in FaultSets(4) :
       Step("unset", Len(get_known_policy_applications), F,
            UnsetIter(F, get_known_policy_applications[idx], curSchema))

drop_existing_policies ==
  /\ pc = "drop"
  /\ \E F \in FaultSets(4) :
       Step("drop", Len(policies_to_drop), F,
            DropIter(F, policies_to_drop[idx], curSchema))

create_masking_policies ==
  /\ pc = "create"
  /\ \E F \in FaultSets(4) :
       Step("create", Len(create_steps), F,
            CreateBlock(F, create_steps[idx], curSchema))

apply_masking_policies ==
  /\ pc = "apply"
  /\ \E F \in {G \in FaultSets(4) : G \subseteq {3, 4}} :
       Step("apply", Len(policy_applications), F,
            ApplyIter(F, policy_applications[idx], curSchema))

\* a catalog query that also detaches every policy from its column
ShowStatementUnsetting ==
  [accepted |-> TRUE, policies |-> policies, bound |-> [c \in Columns |-> NoPolicy]]

\* SHOW MASKING POLICIES / SHOW ... LIKE: the catalog queries of
\* verify_deployment read the warehouse and change nothing in it
ShowStatement ==
  [accepted |-> TRUE, policies |-> policies, bound |-> bound]

\* verify_deployment without its try/except: a failing query reaches main
verify_except_uncaught(raised, np, na) ==
  IF raised
  THEN [pc |-> "aborted",
        verified |-> [ran |-> TRUE, failed |-> TRUE, policies |-> 0, applications |-> 0]]
  ELSE [pc |-> "done",
        verified |-> [ran |-> TRUE, failed |-> FALSE, policies |-> np, applications |-> na]]

\* the try/except around the body of verify_deployment: an exception is
\* printed and the function returns, after which main prints completion
verify_except(raised, np, na) ==
  IF raised
  THEN [pc |-> "done",
        verified |-> [ran |-> TRUE, failed |-> TRUE, policies |-> 0, applications |-> 0]]
  ELSE [pc |-> "done",
        verified |-> [ran |-> TRUE, failed |-> FALSE, policies |-> np, applications |-> na]]

\* verify_deployment: calls 1..4 are the bare USE SCHEMA / SHOW MASKING
\* POLICIES pairs, 5..7 the policy probes, 8..11 the table probes; a probe
\* that raises counts as absent, a bare call that raises ends verification
\* in its except clause.
verify_deployment ==
  /\ pc = "verify"
  /\ \E F \in FaultSets(11) :
       LET bare == F \cap (1..4)
           np == Cardinality({j \in 1..Len(expected_policies) :
                   /\ (4 + j) \notin F
                   /\ policies[Key(expected_policies[j])] # "absent"})
           na == Cardinality({i \in 1..Len(get_known_policy_applications) :
                   /\ (7 + i) \notin F
                   /\ Tbl(get_known_policy_applications[i]) \in tables})
           out == verify_except(bare # {}, np, na) IN
       /\ bare # {} => Cardinality(F) = 1
       /\ verified' = out.verified
       /\ pc' = out.pc
       /\ closes' = main_finally(out.pc, TRUE, closes)
       /\ nfaults' = nfaults + Cardinality(F)
       /\ faulted' = IF F = {} THEN faulted ELSE faulted \cup {"verify"}
  /\ policies' = ShowStatement.policies
  /\ bound' = ShowStatement.bound
  /\ curSchema' = curSchema
  /\ UNCHANGED << tables, conn, idx, run, report, startW, prevRun, exec, probe, split, race >>

\* main() is run again, on a new connection, after the previous run ended
NextRun ==
  /\ pc \in {"done", "aborted"}
  /\ run < NumRuns
  /\ run' = run + 1
  /\ pc' = "start"
  /\ idx' = 1
  /\ conn' = "none"
  /\ curSchema' = NoSchema
  /\ report' = EmptyReport
  /\ verified' = NoVerification
  /\ faulted' = {}
  /\ startW' = W
  /\ closes' = NoCloses
  /\ prevRun' = [ended |-> pc, clean |-> faulted \cap Phases = {}]
  /\ UNCHANGED << tables, policies, bound, nfaults, exec, probe, split, race >>

\* ------------------------------------------------------------------- Init
\* A warehouse before a run: any of the known tables, each managed policy
\* absent or present with an earlier or the current body, and a column bound
\* to its policy only where both its table and the policy exist.
InitMain ==
  /\ tables \in SUBSET KnownTables
  /\ policies \in [PolicyKeys -> Bodies]
  /\ \A k \in PolicyKeys \ ManagedKeys : policies[k] = "absent"
  /\ bound \in [Columns -> ManagedKeys \cup {NoPolicy}]
  /\ \A a \in Range(get_known_policy_applications) :
       bound[Col(a)] # NoPolicy =>
         /\ bound[Col(a)] = Key(a)
         /\ Tbl(a) \in tables
         /\ policies[Key(a)] # "absent"
  /\ curSchema = NoSchema
  /\ conn = "none"
  /\ pc = "start"
  /\ idx = 1
  /\ run = 1
  /\ report = EmptyReport
  /\ verified = NoVerification
  /\ nfaults = 0
  /\ faulted = {}
  /\ startW = W
  /\ prevRun = [ended |-> "none", clean |-> TRUE]
  /\ exec = IdleExec
  /\ probe = IdleProbe
  /\ split = IdleSplit
  /\ closes = NoCloses

\* one process running main(), no second one beside it
Init ==
  /\ InitMain
  /\ race = IdleRace

Next ==
  \/ connect_to_snowflake
  \/ unset_all_masking_policies
  \/ drop_existing_policies
  \/ create_masking_policies
  \/ apply_masking_policies
  \/ verify_deployment
  \/ NextRun

Spec == Init /\ [][Next]_vars


\* ------------------------------------------------- the command executor
\* execute_with_error_handling on its own: any command, raising or not, with
\* an error message of any length up to ExcerptLen + MaxErrExtra
execute_call ==
  \E raises \in BOOLEAN, n \in 0..(ExcerptLen + MaxErrExtra) :
    /\ exec' = [ called |-> TRUE, raises |-> raises, msg |-> Msg(n),
                 out |-> execute_with_error_handling(raises, Msg(n)) ]
    /\ UNCHANGED << tables, policies, bound, curSchema, conn, pc, idx, run, report,
                    verified, nfaults, faulted, startW, prevRun, probe, split, closes, race >>

InitExec ==
  /\ Init
  /\ tables = KnownTables
  /\ policies = [k \in PolicyKeys |-> "absent"]

NextExec == execute_call

SpecExec == InitExec /\ [][NextExec]_vars

\* ------------------------------------------------------------ vocabulary
Desired == get_known_policy_applications
Recorded == {"skipped", "ok", "failed"}
Complete(ph) == \A k \in DOMAIN report[ph] : report[ph][k] \in Recorded
Started(ph) == pc = ph \/ \E k \in DOMAIN report[ph] : report[ph][k] # "none"
\* no channel error in the unset, drop, create or apply phase of this run
ErrorFree == faulted \cap Phases = {}
CreateIndex(p) == CHOOSE j \in DOMAIN create_steps : create_steps[j].policy = p

BindingsAsDesired ==
  /\ \A c \in Columns : bound[c] # NoPolicy => policies[bound[c]] # "absent"
  /\ \A i \in DOMAIN Desired :
       bound[Col(Desired[i])] =
         IF Tbl(Desired[i]) \in tables THEN Key(Desired[i]) ELSE NoPolicy

\* ------------------------------------------------------------------ claims

C2_PhasesInOrder ==
  /\ Started("unset") => conn = "open"
  /\ Started("drop") => Complete("unset")
  /\ Started("create") => Complete("drop")
  /\ Started("apply") => Complete("create")
  /\ (pc = "verify" \/ verified.ran) => Complete("apply")
  /\ pc = "done" => verified.ran

C2_Witness ==
  /\ pc = "done" /\ verified.ran
  /\ report.unset[1] = "skipped" /\ report.unset[4] = "ok"
  /\ report.drop[2] = "failed" /\ report.apply[4] = "ok"

\* C3: the outcome of applying a binding is never recorded before the
\* create-phase outcome (created, already exists, failed) of its policy.
C3_CreateBeforeApply ==
  \A i \in DOMAIN policy_applications :
    report.apply[i] # "none" =>
      report.create[CreateIndex(policy_applications[i].policy)] \in Recorded

C3_Witness ==
  /\ report.create[1] = "failed"
  /\ Tbl(policy_applications[1]) \in tables
  /\ report.apply[1] = "failed"

\* C4 as stated: no failing statement aborts the run, the schema selections
\* before an unset, drop, create or bind included; only a failed connection
\* does.
C4_OnlyConnectAborts == pc = "aborted" => conn = "failed"

\* C5 as stated: a binding whose table is absent gets no bind statement in
\* the apply phase; its outcome is a skip.
C5_ApplySkipsAbsentTable ==
  \A i \in DOMAIN policy_applications :
    (report.apply[i] \in Recorded /\ Tbl(policy_applications[i]) \notin tables)
      => report.apply[i] = "skipped"

\* C6 as stated: in the unset phase the unset statement of a binding is
\* issued if and only if the probe reported its table present.
UnsetProbedPresent(i) == report.unset[i] \in {"ok", "failed", "raised"}
UnsetIssued(i) == report.unset[i] \in {"ok", "failed"}
C6_UnsetIssuedIffPresent ==
  \A i \in DOMAIN report.unset : UnsetProbedPresent(i) <=> UnsetIssued(i)

C8_SecondRunNoOp ==
  prevRun.ended = "done" =>
    /\ \A ph \in Phases : \A k \in DOMAIN report[ph] : report[ph][k] \in {"none", "skipped"}
    /\ W = startW

\* C8, amended: a run that follows a completed run, neither with a channel
\* error in its four phases, drops and creates every managed policy again
\* and unsets and binds again every binding whose table exists; a binding
\* whose table is absent is skipped by the unset and its bind fails.
C8_SecondRunRedoes ==
  (pc = "done" /\ prevRun.ended = "done" /\ prevRun.clean /\ ErrorFree) =>
    /\ \A j \in DOMAIN report.drop : report.drop[j] = "ok"
    /\ \A j \in DOMAIN report.create : report.create[j] = "ok"
    /\ \A i \in DOMAIN Desired :
         IF Tbl(Desired[i]) \in tables
         THEN report.unset[i] = "ok" /\ report.apply[i] = "ok"
         ELSE report.unset[i] = "skipped" /\ report.apply[i] = "failed"

C8_Witness ==
  /\ pc = "done" /\ prevRun.ended = "done" /\ prevRun.clean /\ ErrorFree
  /\ report.create[3] = "ok" /\ report.unset[4] = "skipped"
  /\ report.unset[1] = "ok"

C10_ExecutorNeverRaises ==
  exec.called =>
    /\ ~exec.out.raised
    /\ exec.out.ok <=> ~exec.raises
    /\ exec.raises =>
         /\ Len(exec.out.excerpt) = Min(Len(exec.msg), ExcerptLen)
         /\ \A k \in 1..Len(exec.out.excerpt) : exec.out.excerpt[k] = exec.msg[k]

C10_Witness ==
  /\ exec.called /\ exec.raises
  /\ Len(exec.msg) > ExcerptLen
  /\ ~exec.out.ok /\ Len(exec.out.excerpt) = ExcerptLen

\* ------------------------------------------------- the existence probes
\* check_table_exists and check_policy_exists on their own: any known
\* object, any session schema, either of the two calls raising or not
probe_call ==
  \E fUse \in BOOLEAN, fShow \in BOOLEAN, cur \in Schemas \cup {NoSchema} :
    /\ \/ \E a \in Range(get_known_policy_applications) :
            probe' = [ called |-> TRUE, kind |-> "table", schema |-> a.schema,
                       name |-> a.table, fUse |-> fUse, fShow |-> fShow,
                       out |-> check_table_exists(cur, a.schema, a.table, fUse, fShow) ]
       \/ \E p \in Range(policies_to_drop) :
            probe' = [ called |-> TRUE, kind |-> "policy", schema |-> p.schema,
                       name |-> p.policy, fUse |-> fUse, fShow |-> fShow,
                       out |-> check_policy_exists(cur, p.schema, p.policy, fUse, fShow) ]
    /\ UNCHANGED << tables, policies, bound, curSchema, conn, pc, idx, run, report,
                    verified, nfaults, faulted, startW, prevRun, exec, split, closes, race >>

InitProbe == Init

NextProbe == probe_call

SpecProbe == InitProbe /\ [][NextProbe]_vars

\* the catalog lookup of the probed object returns a row
ProbedObjectExists ==
  IF probe.kind = "table" THEN <<probe.schema, probe.name>> \in tables
  ELSE policies[<<probe.schema, probe.name>>] # "absent"

\* C11: a probe never raises; it returns False whenever its schema selection
\* or its catalog lookup raises, and True exactly when the lookup returns a
\* row.
C11_ProbeFailureIsAbsent ==
  probe.called =>
    /\ ~probe.out.raised
    /\ (probe.fUse \/ probe.fShow) => ~probe.out.result
    /\ probe.out.result <=> (~probe.fUse /\ ~probe.fShow /\ ProbedObjectExists)

C11_Witness ==
  /\ probe.called /\ probe.kind = "policy"
  /\ probe.fUse /\ ProbedObjectExists
  /\ ~probe.out.result /\ ~probe.out.raised

\* C12 as stated: in the drop phase the DROP of a managed policy is issued
\* if and only if the probe reported the policy present.
DropProbedPresent(j) == report.drop[j] \in {"ok", "failed", "raised"}
DropIssued(j) == report.drop[j] \in {"ok", "failed"}
C12_DropIssuedIffPresent ==
  \A j \in DOMAIN report.drop : DropProbedPresent(j) <=> DropIssued(j)

\* C13: in the create phase the CREATE of a policy is issued if and only if
\* the probe reported it absent; a policy reported present is skipped and
\* left as it is.  Without a channel error the probe reports the truth.
C13_CreateIffAbsent ==
  [][ (pc = "create" /\ report'.create[idx] # report.create[idx]) =>
        LET k == <<create_steps[idx].schema, create_steps[idx].policy>>
            o == report'.create[idx] IN
        /\ o = "skipped" => (policies[k] # "absent" /\ policies' = policies)
        /\ o = "ok" => /\ policies[k] = "absent"
                       /\ policies' = [policies EXCEPT ![k] = DesiredBody]
        /\ o = "failed" => policies' = policies
        /\ nfaults' = nfaults =>
             /\ o = "skipped" <=> policies[k] # "absent"
             /\ o = "ok" <=> policies[k] = "absent" ]_vars

C13_Witness ==
  /\ report.create[1] = "skipped"
  /\ policies[<<"CURATED", "address_mask">>] = "old"
  /\ report.create[2] = "ok"
  /\ policies[<<"CURATED", "coordinate_mask">>] = DesiredBody

\* sys.exit(1) in the except clause of main, 0 otherwise
ExitStatus == IF pc = "aborted" THEN 1 ELSE 0

\* C14 as stated: the exit status is non-zero only when the connection
\* failed; with the warehouse reached it is zero whatever statements failed.
C14_ExitReflectsConnection ==
  pc \in {"done", "aborted"} => (ExitStatus = 1 <=> conn = "failed")


\* C15: verify_deployment never mutates the warehouse: the existing policies,
\* their bodies, the column bindings and the tables are after it exactly
\* what they were before it.
C15_VerifyLeavesWarehouse ==
  [][ pc = "verify" => (policies' = policies /\ bound' = bound /\ tables' = tables) ]_vars

C15_Witness ==
  /\ verified.ran
  /\ pc = "done"
  /\ W = startW
  /\ \E c \in Columns : bound[c] # NoPolicy
  /\ \E k \in ManagedKeys : policies[k] = "old"

\* the desired bindings applied in the warehouse: column bound to its policy
AppliedBindings ==
  {i \in DOMAIN Desired : bound[Col(Desired[i])] = Key(Desired[i])}

\* C16 as stated: the bindings-found count of a verification whose queries
\* all succeeded equals the number of desired bindings applied in the
\* warehouse at that time.
C16_CountIsAppliedBindings ==
  (verified.ran /\ ~verified.failed /\ "verify" \notin faulted) =>
    verified.applications = Cardinality(AppliedBindings)

Dashboard == <<"DATA_MART", "public_health_dashboard">>

\* C17: after a reconcile and verify cycle without any channel error the
\* verification reports 3 of 3 expected policies, 4 of 4 bindings when all
\* four tables are present and 3 of 4 when only public_health_dashboard is
\* absent.
C17_VerificationCounts ==
  (pc = "done" /\ verified.ran /\ faulted = {}) =>
    /\ ~verified.failed
    /\ Len(expected_policies) = 3
    /\ verified.policies = 3
    /\ Len(Desired) = 4
    /\ tables = KnownTables => verified.applications = 4
    /\ tables = KnownTables \ {Dashboard} => verified.applications = 3

C17_Witness ==
  /\ pc = "done"
  /\ verified.ran
  /\ faulted = {}
  /\ tables = KnownTables
  /\ \A ph \in Phases : \A k \in DOMAIN report[ph] : report[ph][k] \in {"ok", "skipped"}
  /\ verified.policies = 3
  /\ verified.applications = 4

\* a verification that found less than expected or whose query failed
VerificationMismatch ==
  /\ verified.ran
  /\ \/ verified.failed
     \/ verified.policies < Len(expected_policies)
     \/ verified.applications < Len(Desired)

\* C18: a verification mismatch is recorded, not raised: the run finishes
\* with its normal completion and exit status 0.
C18_MismatchNotRaised ==
  VerificationMismatch => (pc = "done" /\ ExitStatus = 0)

C18_Witness ==
  /\ verified.ran
  /\ verified.failed
  /\ "verify" \in faulted
  /\ pc = "done"
  /\ ExitStatus = 0


\* ------------------------------------- deploy_procedures.execute_sql_file
\* A script is a sequence of tokens: a piece of SQL text, the statement
\* terminator, a line break, a comment marker and the procedure keyword.
TEXT == "x"
SEMI == ";"
NL == "\n"
COMMENT == "--"
KEYWORD == "CREATE OR REPLACE PROCEDURE"
Tokens == {TEXT, SEMI, NL, COMMENT, KEYWORD}
Scripts == UNION {[1..n -> Tokens] : n \in 0..MaxScriptLen}

\* 'KEYWORD in s'
Contains(s, t) == \E i \in 1..Len(s) : s[i] = t

\* s.strip()
RECURSIVE lstrip(_)
lstrip(s) == IF s # <<>> /\ Head(s) = NL THEN lstrip(Tail(s)) ELSE s
RECURSIVE rstrip(_)
rstrip(s) ==
  IF s # <<>> /\ s[Len(s)] = NL THEN rstrip(SubSeq(s, 1, Len(s) - 1)) ELSE s
strip(s) == rstrip(lstrip(s))

\* s.split(sep): one more part than there are separators
RECURSIVE split_on(_, _)
split_on(s, sep) ==
  IF s = <<>> THEN << <<>> >>
  ELSE LET r == split_on(Tail(s), sep) IN
       IF Head(s) = sep THEN << <<>> >> \o r
       ELSE << <<Head(s)>> \o Head(r) >> \o Tail(r)

\* sep.join(parts)
RECURSIVE join(_, _)
join(parts, sep) ==
  IF parts = <<>> THEN <<>>
  ELSE IF Len(parts) = 1 THEN parts[1]
  ELSE parts[1] \o <<sep>> \o join(Tail(parts), sep)

\* [p.strip() for p in parts if p.strip()]
stripped_nonempty(parts) ==
  SelectSeq([i \in 1..Len(parts) |-> strip(parts[i])], LAMBDA p : p # <<>>)

startswith(s, t) == s # <<>> /\ Head(s) = t

\* sql_content.strip().split('\n')
lines(sql_content) == split_on(strip(sql_content), NL)

\* the scan testing line.strip().startswith(keyword) instead of 'in line'
procedure_start_line_opens(sql_content) ==
  LET ls == lines(sql_content)
      hits == {i \in 1..Len(ls) : startswith(strip(ls[i]), KEYWORD)} IN
  IF hits = {} THEN 0 ELSE CHOOSE i \in hits : \A j \in hits : i <= j

\* index of the first line holding the keyword, counted from 1; 0 where the
\* code leaves procedure_start at -1
procedure_start(sql_content) ==
  LET ls == lines(sql_content)
      hits == {i \in 1..Len(ls) : Contains(ls[i], KEYWORD)} IN
  IF hits = {} THEN 0 ELSE CHOOSE i \in hits : \A j \in hits : i <= j

\* the lines before the keyword's line that are neither blank nor comments
setup_statements(sql_content) ==
  LET ls == lines(sql_content)
      ps == procedure_start(sql_content)
      before == IF ps = 0 THEN ls ELSE SubSeq(ls, 1, ps - 1) IN
  SelectSeq([i \in 1..Len(before) |-> strip(before[i])],
            LAMBDA l : l # <<>> /\ ~startswith(l, COMMENT))

setup_sql(sql_content) == join(setup_statements(sql_content), NL)

\* '\n'.join(lines[procedure_start:])
procedure_sql(sql_content) ==
  LET ls == lines(sql_content)
      ps == procedure_start(sql_content) IN
  join(SubSeq(ls, ps, Len(ls)), NL)

\* the statements handed to cursor.execute, in order
submitted(sql_content) ==
  IF Contains(sql_content, KEYWORD)
  THEN (IF setup_sql(sql_content) # <<>>
        THEN stripped_nonempty(split_on(setup_sql(sql_content), SEMI))
        ELSE <<>>)
       \o (IF procedure_start(sql_content) > 0
           THEN << procedure_sql(sql_content) >>
           ELSE <<>>)
  ELSE stripped_nonempty(split_on(sql_content, SEMI))

\* the procedure branch returning success_count > 0 as the other branch does
returned_any_success(sql_content, fails) ==
  LET sub == submitted(sql_content) IN
  IF Cardinality((1..Len(sub)) \ fails) > 0 THEN "True" ELSE "False"

\* the value execute_sql_file returns when the submissions in fails raise
returned(sql_content, fails) ==
  LET sub == submitted(sql_content) IN
  IF Contains(sql_content, KEYWORD)
  THEN IF procedure_start(sql_content) > 0
       THEN (IF Len(sub) \in fails THEN "False" ELSE "True")
       ELSE "None"
  ELSE IF Cardinality((1..Len(sub)) \ fails) > 0 THEN "True" ELSE "False"

\* the for loop over stmts with its try/except inside the loop ending after
\* the first statement that raises
RECURSIVE execute_until_failure(_, _, _)
execute_until_failure(stmts, fails, i) ==
  IF i > Len(stmts) THEN <<>>
  ELSE IF i \in fails
       THEN << stmts[i] >>
       ELSE << stmts[i] >> \o execute_until_failure(stmts, fails, i + 1)

\* for i, statement in enumerate(stmts): try: cursor.execute(statement)
\* except Exception: print(...): the statements handed to the channel from
\* the i-th on when those numbered in fails raise
RECURSIVE execute_each(_, _, _)
execute_each(stmts, fails, i) ==
  IF i > Len(stmts) THEN <<>>
  ELSE IF i \in fails
       THEN << stmts[i] >> \o execute_each(stmts, fails, i + 1)
       ELSE << stmts[i] >> \o execute_each(stmts, fails, i + 1)

\* execute_sql_file(cursor, file_path) of deploy_procedures on a file holding
\* sql_content; the warehouse rejects the submissions numbered in fails.  The
\* function keeps nothing between calls, so a behaviour holds one call.
execute_sql_file ==
  /\ ~split.called
  /\ \E sql_content \in Scripts :
       \E fails \in SUBSET (1..Len(submitted(sql_content))) :
         split' = [ called |-> TRUE,
                    fn |-> "deploy_procedures",
                    script |-> sql_content,
                    statements |-> execute_each(submitted(sql_content), fails, 1),
                    failed |-> fails,
                    result |-> returned(sql_content, fails) ]
  /\ UNCHANGED << tables, policies, bound, curSchema, conn, pc, idx, run, report,
                  verified, nfaults, faulted, startW, prevRun, exec, probe, closes, race >>

\* ------------------------------------------ deploy_ddl.execute_sql_file
\* [cmd.strip() for cmd in sql_commands.split(';') if cmd.strip()]
commands(sql_commands) == stripped_nonempty(split_on(sql_commands, SEMI))

\* return success_count > 0
ddl_returned(sql_commands, fails) ==
  LET success_count == Cardinality((1..Len(commands(sql_commands))) \ fails) IN
  IF success_count > 0 THEN "True" ELSE "False"

\* execute_sql_file(cursor, file_path) of deploy_ddl on a file holding
\* sql_commands
ddl_execute_sql_file ==
  /\ ~split.called
  /\ \E sql_commands \in Scripts :
       \E fails \in SUBSET (1..Len(commands(sql_commands))) :
         split' = [ called |-> TRUE,
                    fn |-> "deploy_ddl",
                    script |-> sql_commands,
                    statements |-> execute_each(commands(sql_commands), fails, 1),
                    failed |-> fails,
                    result |-> ddl_returned(sql_commands, fails) ]
  /\ UNCHANGED << tables, policies, bound, curSchema, conn, pc, idx, run, report,
                  verified, nfaults, faulted, startW, prevRun, exec, probe, closes, race >>

InitSplit ==
  /\ Init
  /\ tables = KnownTables
  /\ policies = [k \in PolicyKeys |-> "absent"]

NextSplit ==
  \/ execute_sql_file
  \/ ddl_execute_sql_file

SpecSplit == InitSplit /\ [][NextSplit]_vars

\* ------------------------------------------ the splitter as section 4.1 has it
FirstKeyword(s) ==
  CHOOSE i \in 1..Len(s) : s[i] = KEYWORD /\ \A j \in 1..(i - 1) : s[j] # KEYWORD

\* the text before the first keyword without its blank and comment-only
\* lines, split on ';', trimmed, empty fragments dropped
SetupBeforeKeyword(s) ==
  LET ls == split_on(SubSeq(s, 1, FirstKeyword(s) - 1), NL)
      kept == SelectSeq([i \in 1..Len(ls) |-> strip(ls[i])],
                        LAMBDA l : l # <<>> /\ ~startswith(l, COMMENT)) IN
  stripped_nonempty(split_on(join(kept, NL), SEMI))

\* the text from the first keyword to the end of the script
FromKeyword(s) == strip(SubSeq(s, FirstKeyword(s), Len(s)))

\* setup statements, without comments, followed by one procedure definition
\* with ';' in its body
SetupThenOneProcedure(s) ==
  /\ ~Contains(s, COMMENT)
  /\ Cardinality({i \in 1..Len(s) : s[i] = KEYWORD}) = 1
  /\ \E i \in (FirstKeyword(s) + 1)..Len(s) : s[i] = SEMI

\* C19 as stated: a script of n setup statements followed by one procedure
\* definition with ';' in its body is submitted as n + 1 statements, the
\* last being the procedure text with its ';' verbatim and unsplit.
C19_SetupPlusOne ==
  (split.called /\ split.fn = "deploy_procedures" /\ SetupThenOneProcedure(split.script)) =>
    /\ Len(split.statements) = Len(SetupBeforeKeyword(split.script)) + 1
    /\ split.statements[Len(split.statements)] = FromKeyword(split.script)
    /\ Contains(split.statements[Len(split.statements)], SEMI)

\* C20 as stated: for every script with the keyword, the text before its
\* first occurrence is split on ';' into plain statements and the text from
\* the keyword to the end is one statement, also when setup text and the
\* keyword share a line.
C20_SplitAtKeyword ==
  (split.called /\ split.fn = "deploy_procedures" /\ Contains(split.script, KEYWORD)) =>
    split.statements =
      SetupBeforeKeyword(split.script) \o << FromKeyword(split.script) >>


\* --------------------------------------- the statements of a script itself
\* s without its comments: a comment runs from its marker to the line's end
RECURSIVE Uncomment(_, _)
Uncomment(s, inComment) ==
  IF s = <<>> THEN <<>>
  ELSE IF Head(s) = NL THEN << NL >> \o Uncomment(Tail(s), FALSE)
  ELSE IF inComment \/ Head(s) = COMMENT THEN Uncomment(Tail(s), TRUE)
  ELSE << Head(s) >> \o Uncomment(Tail(s), FALSE)

\* a statement without comments and line breaks
Squeeze(stmt) == SelectSeq(Uncomment(stmt, FALSE), LAMBDA t : t # NL)

\* statements compared up to comments, line breaks and empty statements
Normal(stmts) ==
  SelectSeq([i \in 1..Len(stmts) |-> Squeeze(stmts[i])], LAMBDA q : q # <<>>)

\* the script read top to bottom: plain statements end at ';' outside
\* comments, a procedure definition runs from its keyword to the end
ScriptStatements(s) ==
  LET u == Uncomment(s, FALSE) IN
  IF Contains(u, KEYWORD)
  THEN split_on(SubSeq(u, 1, FirstKeyword(u) - 1), SEMI)
       \o << SubSeq(u, FirstKeyword(u), Len(u)) >>
  ELSE split_on(u, SEMI)

\* C21 as stated: the statements submitted are, in order, exactly the
\* non-empty statements of the script: none added, merged, dropped or moved.
C21_SubmittedAreScriptStatements ==
  split.called => Normal(split.statements) = Normal(ScriptStatements(split.script))

\* the positions that bound the fragments of s: before it, its ';', after it
Breaks(s) == {0, Len(s) + 1} \cup {i \in 1..Len(s) : s[i] = SEMI}
NthBreak(s, k) ==
  CHOOSE b \in Breaks(s) : Cardinality({c \in Breaks(s) : c < b}) = k - 1
Fragment(s, k) == SubSeq(s, NthBreak(s, k) + 1, NthBreak(s, k + 1) - 1)
Blank(f) == \A i \in 1..Len(f) : f[i] = NL
Trim(f) ==
  LET solid == {i \in 1..Len(f) : f[i] # NL}
      lo == CHOOSE i \in solid : \A j \in solid : i <= j
      hi == CHOOSE i \in solid : \A j \in solid : j <= i IN
  SubSeq(f, lo, hi)
\* the fragments between the ';' of s that are not blank, trimmed, in order
PlainStatements(s) ==
  LET n == Cardinality(Breaks(s)) - 1
      kept == SelectSeq([k \in 1..n |-> Fragment(s, k)], LAMBDA f : ~Blank(f)) IN
  [k \in 1..Len(kept) |-> Trim(kept[k])]

\* C22: a script without the keyword is split on ';', blank fragments are
\* discarded and every other fragment is submitted once, in order, whichever
\* of them fail.
C22_PlainScriptSplit ==
  (split.called /\ ~Contains(split.script, KEYWORD)) =>
    /\ split.statements = PlainStatements(split.script)
    /\ split.failed \subseteq 1..Len(split.statements)

C22_Witness ==
  /\ split.called
  /\ split.fn = "deploy_ddl"
  /\ ~Contains(split.script, KEYWORD)
  /\ Len(split.statements) = 2
  /\ split.failed = {1}
  /\ \E k \in 1..(Cardinality(Breaks(split.script)) - 1) :
       Blank(Fragment(split.script, k))

\* C28: in deploy_procedures, with the keyword in the script, a failing
\* setup statement stops neither the later setup statements nor the
\* procedure statement, and the result is True exactly when the procedure
\* statement, the last one submitted, succeeded.
C28_SetupFailuresIgnored ==
  (split.called /\ split.fn = "deploy_procedures" /\ Contains(split.script, KEYWORD)) =>
    /\ split.statements = execute_each(submitted(split.script), {}, 1)
    /\ Contains(split.statements[Len(split.statements)], KEYWORD)
    /\ (split.result = "True") <=> (Len(split.statements) \notin split.failed)

C28_Witness ==
  /\ split.called
  /\ split.fn = "deploy_procedures"
  /\ Contains(split.script, KEYWORD)
  /\ Len(split.statements) = 3
  /\ split.failed = {1}
  /\ split.result = "True"

\* C30: deploy_procedures.execute_sql_file always returns a boolean: with
\* the keyword in the script some line holds it, the procedure statement is
\* submitted exactly once and its outcome returned; without it the result is
\* True exactly when at least one statement succeeded.
C30_AlwaysBoolean ==
  (split.called /\ split.fn = "deploy_procedures") =>
    /\ split.result \in {"True", "False"}
    /\ Contains(split.script, KEYWORD) =>
         /\ procedure_start(split.script) > 0
         /\ Cardinality({i \in 1..Len(split.statements) :
                           Contains(split.statements[i], KEYWORD)}) = 1
         /\ (split.result = "False") <=> (Len(split.statements) \in split.failed)
    /\ ~Contains(split.script, KEYWORD) =>
         ((split.result = "True") <=>
            (\E i \in 1..Len(split.statements) : i \notin split.failed))

C30_Witness ==
  /\ split.called
  /\ split.fn = "deploy_procedures"
  /\ Contains(split.script, KEYWORD)
  /\ ~startswith(split.script, KEYWORD)
  /\ Len(split.statements) = 1
  /\ split.failed = {1}
  /\ split.result = "False"


\* the schema of the i-th object of phase ph
SchemaOf(ph, i) ==
  CASE ph = "unset" -> get_known_policy_applications[i].schema
    [] ph = "drop" -> policies_to_drop[i].schema
    [] ph = "create" -> create_steps[i].schema
    [] ph = "apply" -> policy_applications[i].schema

\* the step about to be taken issues the statement of the current object
StatementIssued(ph) == pc = ph /\ report'[ph][idx] \in {"ok", "failed"}

\* C24: whenever an unset, drop, create or bind statement for an object of
\* schema S is issued, the session's current schema is S, also after a
\* failed probe; so no policy is ever created outside its own schema.
C24_ContextAsserted ==
  [][ /\ \A ph \in Phases : StatementIssued(ph) => curSchema' = SchemaOf(ph, idx)
      /\ \A k \in PolicyKeys \ ManagedKeys : policies'[k] = "absent" ]_vars

C24_Witness ==
  /\ pc = "apply"
  /\ faulted = {"create"}
  /\ report.create = << "ok", "ok", "ok" >>
  /\ curSchema = "DATA_MART"
  /\ policies[<<"DATA_MART", "population_mask">>] = DesiredBody

ListPhases == {"unset", "drop", "apply"}

\* C25 as stated: within a phase the objects are processed in list order,
\* and every object of the list of a phase that was entered is processed
\* exactly once.
C25_ListOrderEveryObject ==
  /\ \A ph \in ListPhases : \A j \in DOMAIN report[ph] :
       report[ph][j] # "none" => \A i \in 1..(j - 1) : report[ph][i] \in Recorded
  /\ pc \in {"done", "aborted"} =>
       \A ph \in ListPhases : Started(ph) => Complete(ph)

\* the columns bound to policy k
BoundTo(k) == {c \in Columns : bound[c] = k}

C29_ClosedExactlyOnce ==
  /\ (pc \in {"done", "aborted"} /\ conn = "open") =>
       (closes.cursor = 1 /\ closes.conn = 1)
  /\ pc \notin {"done", "aborted"} => closes = NoCloses
  /\ conn = "failed" => closes = NoCloses

C29_Witness ==
  /\ pc = "aborted"
  /\ conn = "open"
  /\ ExitStatus = 1
  /\ report.create[3] = "raised"
  /\ closes.cursor = 1
  /\ closes.conn = 1


\* ------------------------------------------- two runs of main() at once
\* Two processes run main() against the same warehouse, each on its own
\* connection.  A probe and the statement it guards are separate calls on
\* the channel, so the other run's calls can come between them.  Each run
\* is followed through its unset, drop, create and apply phase.
RaceRuns == {"A", "B"}
RaceStart == [pc |-> "unset", idx |-> 1, stage |-> "probe", seen |-> FALSE, out |-> "none"]

RaceList(ph) ==
  CASE ph = "unset" -> get_known_policy_applications
    [] ph = "drop" -> policies_to_drop
    [] ph = "create" -> create_steps
    [] ph = "apply" -> policy_applications

\* the position of a run after the current element of its phase, whose
\* statement ended as out
RaceAdvance(rr, out) ==
  IF LoopDone(rr.idx, Len(RaceList(rr.pc)))
  THEN [ pc |-> NextPhase(rr.pc), idx |-> 1, seen |-> FALSE, out |-> out,
         stage |-> IF NextPhase(rr.pc) = "apply" THEN "act" ELSE "probe" ]
  ELSE [ pc |-> rr.pc, idx |-> rr.idx + 1, seen |-> FALSE, out |-> out,
         stage |-> IF rr.pc = "apply" THEN "act" ELSE "probe" ]

\* check_table_exists / check_policy_exists of run r for its current element
race_probe(r) ==
  LET rr == race[r]
      o == RaceList(rr.pc)[rr.idx] IN
  /\ rr.pc \in {"unset", "drop", "create"}
  /\ rr.stage = "probe"
  /\ race' = [race EXCEPT ![r].stage = "act",
                          ![r].out = "none",
                          ![r].seen =
                            IF rr.pc = "unset"
                            THEN check_table_exists(o.schema, o.schema, o.table,
                                                    FALSE, FALSE).result
                            ELSE check_policy_exists(o.schema, o.schema, o.policy,
                                                     FALSE, FALSE).result]
  /\ UNCHANGED << tables, policies, bound, curSchema, conn, pc, idx, run, report,
                  verified, nfaults, faulted, startW, prevRun, exec, probe, split,
                  closes >>

\* the branch run r takes on its probe's result and the statement it issues
race_statement(r) ==
  LET rr == race[r]
      o == RaceList(rr.pc)[rr.idx]
      res == CASE rr.pc = "unset" ->
                    IF rr.seen
                    THEN Guarded({}, o.schema,
                                 UnsetStatement(o.schema, o.table, o.column), {})
                    ELSE Unchanged("skipped", o.schema, {})
               [] rr.pc = "drop" ->
                    IF rr.seen
                    THEN Guarded({}, o.schema, DropStatement(o.schema, o.policy), {})
                    ELSE Unchanged("skipped", o.schema, {})
               [] rr.pc = "create" ->
                    IF ~rr.seen
                    THEN Guarded({}, o.schema, CreateStatement(o.schema, o.policy), {})
                    ELSE Unchanged("skipped", o.schema, {})
               [] rr.pc = "apply" ->
                    Guarded({}, o.schema,
                            SetStatement(o.schema, o.table, o.column, o.policy), {}) IN
  /\ rr.pc \in Phases
  /\ rr.stage = "act"
  /\ policies' = res.policies
  /\ bound' = res.bound
  /\ race' = [race EXCEPT ![r] = RaceAdvance(rr, res.out)]
  /\ UNCHANGED << tables, curSchema, conn, pc, idx, run, report, verified, nfaults,
                  faulted, startW, prevRun, exec, probe, split, closes >>

InitRace ==
  /\ InitMain
  /\ tables = KnownTables
  /\ race = [r \in RaceRuns |-> RaceStart]

NextRace ==
  \E r \in RaceRuns :
    \/ race_probe(r)
    \/ race_statement(r)

SpecRace == InitRace /\ [][NextRace]_vars

\* a column bound to a policy that does not exist
Dangling == \E c \in Columns : bound[c] # NoPolicy /\ policies[bound[c]] = "absent"

RaceEnded == \A r \in RaceRuns : race[r].pc = "verify"

\* run r issues the DROP of a policy that a column is bound to
RacingDropOfBound(r) ==
  /\ race[r].pc = "drop"
  /\ race[r].stage = "act"
  /\ race[r].seen
  /\ race'[r] # race[r]
  /\ BoundTo(Key(policies_to_drop[race[r].idx])) # {}

====
